---------------------------- MODULE Spec2Model ----------------------------
(***************************************************************************)
(* Track-identity reconciliation (TrackIDStitcher, src/src/id_stitcher.py) *)
(* and line-crossing counting (LineCrossingCounter, src/src/counter.py),   *)
(* driven as in process_sequence (src/src/run.py).                         *)
(*                                                                         *)
(* Three specifications share the module:                                  *)
(*   SpecCounter : a LineCrossingCounter instance fed frame by frame;      *)
(*   SpecStitch  : the tracker output handed to stitch_tracks and then to  *)
(*                 get_statistics;                                         *)
(*   SpecOffline : stitch_tracks and get_statistics on a stored list of    *)
(*                 frame dicts, in any order of the frames.                *)
(* Python values: None is the empty sequence, Some(x) is <<x>>; a dict is  *)
(* a function whose DOMAIN is its key set; a point is <<x, y>>; a bbox is  *)
(* <<x1, y1, x2, y2>>.  Coordinates are integers, so float arithmetic is   *)
(* exact on them.                                                          *)
(***************************************************************************)
EXTENDS Integers, Sequences, FiniteSets, TLC

VARIABLES
    \* ---- LineCrossingCounter fields (counter.py:29-45)
    line_start, line_end, min_frames_between, history_length,
    track_history, last_crossing_frame, count_in, count_out, events,
    \* ---- values returned to the caller of the counter
    frame_events,      \* result of the last process_frame call
    summary,           \* None, or Some(result of get_summary) while up to date
    \* ---- the caller's loop over frames (run.py:131-134) and a per-record log
    last_frame,        \* frame number of the last process_frame call (0: none yet)
    steps,             \* one entry per track record of the last process_frame call
    \* ---- tracker output and TrackIDStitcher (run.py:92-113)
    pc,                \* position in process_sequence
    heap,              \* the track dicts, addressed by reference (1..Len(heap))
    tracking_results,  \* list of frame dicts; 'tracks' holds references
    R0,                \* the content of tracking_results when stitch_tracks is called
    track_segments, merge_map, loop_i, loop_j,
    stitched_results, stitching_stats,
    last_pair,         \* the pair evaluated by the last iteration of the merge loop
    merge_log          \* the assignments merge_map[slave_id] = final_master, in order

counter_vars == <<line_start, line_end, min_frames_between, history_length,
                  track_history, last_crossing_frame, count_in, count_out,
                  events, frame_events, summary, last_frame, steps>>

detector_state == <<line_start, line_end, min_frames_between, history_length,
                    track_history, last_crossing_frame, count_in, count_out,
                    events>>

stitch_vars == <<pc, heap, tracking_results, R0, track_segments, merge_map,
                 loop_i, loop_j, stitched_results, stitching_stats, last_pair,
                 merge_log>>

vars == <<counter_vars, stitch_vars>>

-----------------------------------------------------------------------------
(* Python helpers *)

None == <<>>
Some(x) == <<x>>

\* d[k] = v on a dict
DictSet(d, k, v) == [x \in (DOMAIN d) \cup {k} |-> IF x = k THEN v ELSE d[x]]

EmptyDict == [x \in {} |-> 0]

\* variant: the newest entry is dropped when full
DequeAppend_DropNewest(q, e, n) ==
    LET a == Append(q, e)
    IN  IF Len(a) > n THEN SubSeq(a, 1, n) ELSE a

\* deque(maxlen=n).append(e): the oldest entry is dropped when full
DequeAppend(q, e, n) ==
    LET a == Append(q, e)
    IN  IF Len(a) > n THEN SubSeq(a, Len(a) - n + 1, Len(a)) ELSE a

-----------------------------------------------------------------------------
(* Bounds and inputs of the counter *)

MaxFrame == 2
DefaultMinFrames == 30
DefaultHistoryLength == 10

\* Number of track records in one frame
FrameSizes == {0, 1, 2}

CounterIds == {1, 2}

\* Constructor arguments tried: the line (0,0)-(0,10) with a cooldown of 1 or
\* 2 frames and a two-entry history, and the line (0,0)-(0,100) with the
\* default cooldown and history length.
CounterConfigs ==
    { [line_start |-> <<0, 0>>, line_end |-> <<0, 10>>,
       min_frames_between_crossings |-> m,
       position_history_length |-> 2] : m \in {1, 2} }
    \cup
    { [line_start |-> <<0, 0>>, line_end |-> <<0, 100>>,
       min_frames_between_crossings |-> DefaultMinFrames,
       position_history_length |-> DefaultHistoryLength] }

\* Track centers fed to the instance, by the line it was built with
Centers ==
    IF line_end = <<0, 100>>
    THEN { <<-10, 50>>, <<10, 50>> }
    ELSE { <<-1, 5>>, <<0, 5>>, <<1, 5>>, <<-1, 16>> }

CounterTracks == [track_id : CounterIds, center : Centers]

SeqsOfSizes(S, sizes) == UNION { [1..k -> S] : k \in sizes }

-----------------------------------------------------------------------------
(* LineCrossingCounter *)

ccw(A, B, C) == (C[2] - A[2]) * (B[1] - A[1]) > (B[2] - A[2]) * (C[1] - A[1])

\* variant: the last test compares ccw(p1, p2, p3) with itself
_segments_intersect_SamePoint(p1, p2, p3, p4) ==
    /\ ccw(p1, p3, p4) # ccw(p2, p3, p4)
    /\ ccw(p1, p2, p3) # ccw(p1, p2, p3)

_segments_intersect(p1, p2, p3, p4) ==
    /\ ccw(p1, p3, p4) # ccw(p2, p3, p4)
    /\ ccw(p1, p2, p3) # ccw(p1, p2, p4)

\* variant: the movement vector is taken from pos2 to pos1
_get_crossing_direction_Reversed(pos1, pos2) ==
    LET line_vec     == <<line_end[1] - line_start[1], line_end[2] - line_start[2]>>
        movement_vec == <<pos1[1] - pos2[1], pos1[2] - pos2[2]>>
        cross        == line_vec[1] * movement_vec[2] - line_vec[2] * movement_vec[1]
    IN  IF cross > 0 THEN "IN" ELSE "OUT"

\* variant: the two products of the cross product are exchanged
_get_crossing_direction_Swapped(pos1, pos2) ==
    LET line_vec     == <<line_end[1] - line_start[1], line_end[2] - line_start[2]>>
        movement_vec == <<pos2[1] - pos1[1], pos2[2] - pos1[2]>>
        cross        == line_vec[2] * movement_vec[1] - line_vec[1] * movement_vec[2]
    IN  IF cross > 0 THEN "IN" ELSE "OUT"

_get_crossing_direction(pos1, pos2) ==
    LET line_vec     == <<line_end[1] - line_start[1], line_end[2] - line_start[2]>>
        movement_vec == <<pos2[1] - pos1[1], pos2[2] - pos1[2]>>
        cross        == line_vec[1] * movement_vec[2] - line_vec[2] * movement_vec[1]
    IN  IF cross > 0 THEN "IN" ELSE "OUT"

\* None, or Some([direction |-> ...])
_check_line_crossing(pos1, pos2) ==
    IF _segments_intersect(pos1, pos2, line_start, line_end)
    THEN Some([direction |-> _get_crossing_direction(pos1, pos2)])
    ELSE None

\* variant: the cooldown still holds at exactly min_frames_between frames
CoolingDown_Inclusive(lcf, track_id, frame_num) ==
    /\ track_id \in DOMAIN lcf
    /\ frame_num - lcf[track_id] <= min_frames_between

\* The cooldown test of process_frame (counter.py:74-77)
CoolingDown(lcf, track_id, frame_num) ==
    /\ track_id \in DOMAIN lcf
    /\ frame_num - lcf[track_id] < min_frames_between

\* One iteration of the loop of process_frame (counter.py:62-109) on the
\* detector fields st.
ProcessTrack(st, frame_num, track) ==
    LET track_id == track.track_id
        center   == track.center
        old      == IF track_id \in DOMAIN st.track_history
                    THEN st.track_history[track_id] ELSE <<>>
        hist     == DequeAppend(old, <<frame_num, center>>, history_length)
        st1      == [st EXCEPT !.track_history = DictSet(@, track_id, hist)]
    IN  IF Len(hist) < 2 THEN st1
        ELSE IF CoolingDown(st.last_crossing_frame, track_id, frame_num) THEN st1
        ELSE
          LET prev_center   == hist[Len(hist) - 1][2]
              crossing_info == _check_line_crossing(prev_center, center)
          IN  IF crossing_info = None THEN st1
              ELSE
                LET direction == crossing_info[1].direction
                    cin  == IF direction = "IN" THEN st.count_in + 1 ELSE st.count_in
                    cout == IF direction = "OUT" THEN st.count_out + 1 ELSE st.count_out
                    event == [frame |-> frame_num, track_id |-> track_id,
                              direction |-> direction, position |-> center,
                              count_in |-> cin, count_out |-> cout]
                IN  [st1 EXCEPT !.count_in = cin, !.count_out = cout,
                                !.events = Append(@, event),
                                !.frame_events = Append(@, event),
                                !.last_crossing_frame = DictSet(@, track_id, frame_num)]

\* What one record did, read off the fields before and after it:
\* prev is the ID's last earlier observed position, last_ev the frame of the
\* ID's latest event in the log before the record.
LastEventFrame(evs, track_id) ==
    LET idx == { i \in 1..Len(evs) : evs[i].track_id = track_id }
    IN  IF idx = {} THEN None
        ELSE Some(evs[CHOOSE i \in idx : \A k \in idx : k <= i].frame)

StepRecord(pre, post, track) ==
    LET t == track.track_id
    IN  [track_id |-> t,
         center   |-> track.center,
         prev     |-> IF t \in DOMAIN pre.track_history
                      THEN Some(pre.track_history[t][Len(pre.track_history[t])][2])
                      ELSE None,
         test_start |-> IF Len(post.track_history[t]) < 2 THEN None
                        ELSE Some(post.track_history[t][Len(post.track_history[t]) - 1][2]),
         last_ev  |-> LastEventFrame(pre.events, t),
         new_events |-> SubSeq(post.events, Len(pre.events) + 1, Len(post.events)),
         d_in     |-> post.count_in - pre.count_in,
         d_out    |-> post.count_out - pre.count_out,
         lcf      |-> IF t \in DOMAIN post.last_crossing_frame
                      THEN Some(post.last_crossing_frame[t]) ELSE None]

RECURSIVE RunTracks(_, _, _, _)
RunTracks(st, log, frame_num, tracks) ==
    IF tracks = <<>> THEN [st |-> st, log |-> log]
    ELSE LET post == ProcessTrack(st, frame_num, Head(tracks))
         IN  RunTracks(post, Append(log, StepRecord(st, post, Head(tracks))),
                       frame_num, Tail(tracks))

\* process_frame(frame_num, tracks)
process_frame(frame_num, tracks) ==
    LET st0 == [track_history |-> track_history,
                last_crossing_frame |-> last_crossing_frame,
                count_in |-> count_in, count_out |-> count_out,
                events |-> events, frame_events |-> <<>>]
        r   == RunTracks(st0, <<>>, frame_num, tracks)
    IN  /\ track_history' = r.st.track_history
        /\ last_crossing_frame' = r.st.last_crossing_frame
        /\ count_in' = r.st.count_in
        /\ count_out' = r.st.count_out
        /\ events' = r.st.events
        /\ frame_events' = r.st.frame_events
        /\ steps' = r.log
        /\ last_frame' = frame_num
        /\ summary' = None
        /\ UNCHANGED <<line_start, line_end, min_frames_between, history_length>>

\* variant: unique_tracks counts events instead of distinct IDs
get_summary_EventsAsTracks ==
    [total_in |-> count_in,
     total_out |-> count_out,
     net |-> count_in - count_out,
     total_crossings |-> Len(events),
     unique_tracks |-> Len(events)]

\* The value get_summary returns (counter.py:156-164)
get_summary ==
    [total_in |-> count_in,
     total_out |-> count_out,
     net |-> count_in - count_out,
     total_crossings |-> Len(events),
     unique_tracks |-> Cardinality({ events[i].track_id : i \in 1..Len(events) })]

-----------------------------------------------------------------------------
(* The stitcher is idle while a counter instance is exercised *)

StitchIdle ==
    /\ pc = "idle"
    /\ heap = <<>>
    /\ tracking_results = <<>>
    /\ R0 = <<>>
    /\ track_segments = EmptyDict
    /\ merge_map = EmptyDict
    /\ loop_i = 0
    /\ loop_j = 0
    /\ stitched_results = None
    /\ stitching_stats = None
    /\ last_pair = None
    /\ merge_log = <<>>

\* LineCrossingCounter.__init__ (counter.py:17-47)
InitCounter ==
    /\ \E cfg \in CounterConfigs :
          /\ line_start = cfg.line_start
          /\ line_end = cfg.line_end
          /\ min_frames_between = cfg.min_frames_between_crossings
          /\ history_length = cfg.position_history_length
    /\ track_history = EmptyDict
    /\ last_crossing_frame = EmptyDict
    /\ count_in = 0
    /\ count_out = 0
    /\ events = <<>>
    /\ frame_events = <<>>
    /\ summary = None
    /\ last_frame = 0
    /\ steps = <<>>
    /\ StitchIdle

\* The loop of run.py:131-134: frames arrive in increasing frame order
ProcessFrame ==
    /\ summary = None
    /\ \E frame_num \in (last_frame + 1)..MaxFrame :
       \E tracks \in SeqsOfSizes(CounterTracks, FrameSizes) :
          process_frame(frame_num, tracks)
    /\ UNCHANGED stitch_vars

GetSummary ==
    /\ summary = None
    /\ summary' = Some(get_summary)
    /\ UNCHANGED <<detector_state, frame_events, last_frame, steps>>
    /\ UNCHANGED stitch_vars

NextCounter == ProcessFrame \/ GetSummary

SpecCounter == InitCounter /\ [][NextCounter]_vars

-----------------------------------------------------------------------------
(* Bounds and inputs of the stitcher *)

MaxTracks == 3
MaxFrameGap == 30
PositionThreshold == 150
SizeSimilarityNum == 1
SizeSimilarityDen == 2
Inf == 1000000

StitchIds == {1, 2, 3}

\* Frame numbers the tracker may assign (frame_idx + 1; unreadable images are
\* skipped, so numbers may be missing): gaps of 14, 30 and 44 frames.
FrameNums == {1, 15, 45}

\* Detected boxes: area 2000 centred (100,100); area 0 centred (100,100);
\* area 2000 centred (250,100), at distance 150 from the first.
Boxes == { <<80, 75, 120, 125>>, <<100, 80, 100, 120>>, <<230, 75, 270, 125>> }

\* The track dict the tracker builds from a box (tracker_botsort.py:77-88);
\* the confidence is in percent, and the 'stitched' key is absent (None)
TrackDict(track_id, box) ==
    [track_id |-> track_id,
     bbox     |-> box,
     confidence |-> 90 - track_id,
     center   |-> <<(box[1] + box[3]) \div 2, (box[2] + box[4]) \div 2>>,
     stitched |-> None]

StitchTracks == { TrackDict(t, b) : t \in StitchIds, b \in Boxes }

\* ID 1 in frames 1-10 and ID 2 in frames 15-30, frames 11-14 without tracks
ScenarioFrameTracks(f) ==
    IF f <= 10 THEN << TrackDict(1, <<80, 75, 120, 125>>) >>
    ELSE IF f >= 15 THEN << TrackDict(2, <<91, 80, 129, 130>>) >>
    ELSE << >>

ScenarioR == [f \in 1..30 |-> [frame |-> f, tracks |-> ScenarioFrameTracks(f)]]

-----------------------------------------------------------------------------
(* The tracking results as a list of frame dicts over shared track dicts *)

RECURSIVE Flatten(_)
Flatten(frames) ==
    IF frames = <<>> THEN <<>>
    ELSE Head(frames).tracks \o Flatten(Tail(frames))

RECURSIVE RefFrames(_, _)
\* The frames with every track dict replaced by its reference, counted from n+1
RefFrames(frames, n) ==
    IF frames = <<>> THEN <<>>
    ELSE LET k == Len(Head(frames).tracks)
         IN  << [frame |-> Head(frames).frame, tracks |-> [i \in 1..k |-> n + i]] >>
             \o RefFrames(Tail(frames), n + k)

\* The content of a list of frame dicts, references followed
Content(results, hp) ==
    [k \in 1..Len(results) |->
        [frame |-> results[k].frame,
         tracks |-> [i \in 1..Len(results[k].tracks) |-> hp[results[k].tracks[i]]]]]

\* The (frame number, reference) pairs in iteration order
RECURSIVE Records(_)
Records(results) ==
    IF results = <<>> THEN <<>>
    ELSE LET fd == Head(results)
         IN  [i \in 1..Len(fd.tracks) |-> <<fd.frame, fd.tracks[i]>>]
             \o Records(Tail(results))

-----------------------------------------------------------------------------
(* TrackIDStitcher *)

NewSegment ==
    [start_frame |-> Inf, end_frame |-> 0,
     start_position |-> None, end_position |-> None,
     start_bbox |-> None, end_bbox |-> None,
     frames |-> <<>>]

\* variant: the end of the segment is updated only when the start is not
SegmentUpdate_Elif(segments, frame_num, track) ==
    LET track_id == track.track_id
        seg0 == IF track_id \in DOMAIN segments THEN segments[track_id] ELSE NewSegment
        seg1 == [seg0 EXCEPT !.frames = Append(@, frame_num)]
        seg2 == IF frame_num < seg1.start_frame
                THEN [seg1 EXCEPT !.start_frame = frame_num,
                                  !.start_position = track.center,
                                  !.start_bbox = track.bbox]
                ELSE IF frame_num > seg1.end_frame
                THEN [seg1 EXCEPT !.end_frame = frame_num,
                                  !.end_position = track.center,
                                  !.end_bbox = track.bbox]
                ELSE seg1
    IN  DictSet(segments, track_id, seg2)

\* The body of the loops of _build_track_segments for one track of one frame
SegmentUpdate(segments, frame_num, track) ==
    LET track_id == track.track_id
        seg0 == IF track_id \in DOMAIN segments THEN segments[track_id] ELSE NewSegment
        seg1 == [seg0 EXCEPT !.frames = Append(@, frame_num)]
        seg2 == IF frame_num < seg1.start_frame
                THEN [seg1 EXCEPT !.start_frame = frame_num,
                                  !.start_position = track.center,
                                  !.start_bbox = track.bbox]
                ELSE seg1
        seg3 == IF frame_num > seg2.end_frame
                THEN [seg2 EXCEPT !.end_frame = frame_num,
                                  !.end_position = track.center,
                                  !.end_bbox = track.bbox]
                ELSE seg2
    IN  DictSet(segments, track_id, seg3)

RECURSIVE BuildFrom(_, _, _)
BuildFrom(segments, recs, hp) ==
    IF recs = <<>> THEN segments
    ELSE BuildFrom(SegmentUpdate(segments, Head(recs)[1], hp[Head(recs)[2]]),
                   Tail(recs), hp)

_build_track_segments(results, hp) == BuildFrom(EmptyDict, Records(results), hp)

\* sorted(segments.keys())
RECURSIVE SortedIds(_)
SortedIds(S) ==
    IF S = {} THEN <<>>
    ELSE LET m == CHOOSE x \in S : \A y \in S : x <= y
         IN  <<m>> \o SortedIds(S \ {m})

_get_bbox_size(bbox) == (bbox[3] - bbox[1]) * (bbox[4] - bbox[2])

Min(a, b) == IF a < b THEN a ELSE b
Max(a, b) == IF a > b THEN a ELSE b

\* np.linalg.norm(p - q) < position_threshold, on the squares
DistBelowThreshold(p, q) ==
    (p[1] - q[1]) * (p[1] - q[1]) + (p[2] - q[2]) * (p[2] - q[2])
        < PositionThreshold * PositionThreshold

\* variant: a ratio equal to the threshold passes
RatioAboveThreshold_Inclusive(size_a, size_b) ==
    Min(size_a, size_b) * SizeSimilarityDen >= SizeSimilarityNum * Max(size_a, size_b)

\* min(size_a, size_b) / max(size_a, size_b) > size_similarity_threshold,
\* for a non-zero divisor
RatioAboveThreshold(size_a, size_b) ==
    Min(size_a, size_b) * SizeSimilarityDen > SizeSimilarityNum * Max(size_a, size_b)

\* The comparison made once the order of two segments is known: the earlier
\* segment's end against the later segment's start (id_stitcher.py:119-136 and
\* 140-155).  raised: the division by max(size_a, size_b) = 0.
Compare(earlier, later, size_a, size_b) ==
    LET frame_gap == later.start_frame - earlier.end_frame
    IN  IF frame_gap <= MaxFrameGap
        THEN IF Max(size_a, size_b) = 0
             THEN [raised |-> TRUE, should_merge |-> FALSE]
             ELSE [raised |-> FALSE,
                   should_merge |->
                       /\ DistBelowThreshold(earlier.end_position, later.start_position)
                       /\ RatioAboveThreshold(size_a, size_b)]
        ELSE [raised |-> FALSE, should_merge |-> FALSE]

\* variant: track_id_a is the master in both cases
EvalPair_MasterIsA(segments, track_id_a, track_id_b) ==
    LET seg_a == segments[track_id_a]
        seg_b == segments[track_id_b]
    IN  IF seg_a.end_frame < seg_b.start_frame
        THEN LET c == Compare(seg_a, seg_b, _get_bbox_size(seg_a.end_bbox),
                              _get_bbox_size(seg_b.start_bbox))
             IN  [raised |-> c.raised, should_merge |-> c.should_merge,
                  master_id |-> track_id_a, slave_id |-> track_id_b]
        ELSE IF seg_b.end_frame < seg_a.start_frame
        THEN LET c == Compare(seg_b, seg_a, _get_bbox_size(seg_a.start_bbox),
                              _get_bbox_size(seg_b.end_bbox))
             IN  [raised |-> c.raised, should_merge |-> c.should_merge,
                  master_id |-> track_id_a, slave_id |-> track_id_b]
        ELSE [raised |-> FALSE, should_merge |-> FALSE,
              master_id |-> track_id_a, slave_id |-> track_id_b]

\* One evaluation of a pair (id_stitcher.py:112-155)
EvalPair(segments, track_id_a, track_id_b) ==
    LET seg_a == segments[track_id_a]
        seg_b == segments[track_id_b]
    IN  IF seg_a.end_frame < seg_b.start_frame
        THEN LET c == Compare(seg_a, seg_b, _get_bbox_size(seg_a.end_bbox),
                              _get_bbox_size(seg_b.start_bbox))
             IN  [raised |-> c.raised, should_merge |-> c.should_merge,
                  master_id |-> track_id_a, slave_id |-> track_id_b]
        ELSE IF seg_b.end_frame < seg_a.start_frame
        THEN LET c == Compare(seg_b, seg_a, _get_bbox_size(seg_a.start_bbox),
                              _get_bbox_size(seg_b.end_bbox))
             IN  [raised |-> c.raised, should_merge |-> c.should_merge,
                  master_id |-> track_id_b, slave_id |-> track_id_a]
        ELSE [raised |-> FALSE, should_merge |-> FALSE,
              master_id |-> track_id_a, slave_id |-> track_id_b]

\* What the iteration on (a, b) had before it: which segment is the earlier
\* one, whether the pair passes the frame-gap test, the two areas compared,
\* and the mapping so far.
PairFacts(segments, track_id_a, track_id_b, mm) ==
    LET seg_a == segments[track_id_a]
        seg_b == segments[track_id_b]
        a_first == seg_a.end_frame < seg_b.start_frame
        b_first == ~a_first /\ seg_b.end_frame < seg_a.start_frame
        e == IF a_first THEN seg_a ELSE seg_b
        l == IF a_first THEN seg_b ELSE seg_a
    IN  [a |-> track_id_a, b |-> track_id_b,
         ordered |-> a_first \/ b_first,
         earlier |-> IF a_first THEN track_id_a ELSE track_id_b,
         later   |-> IF a_first THEN track_id_b ELSE track_id_a,
         gap_ok  |-> (a_first \/ b_first) /\ l.start_frame - e.end_frame <= MaxFrameGap,
         area_earlier |-> _get_bbox_size(e.end_bbox),
         area_later   |-> _get_bbox_size(l.start_bbox),
         map_before |-> mm]

\* The while loop of _get_master_id, run for at most n lookups: None when it
\* has not left the mapping by then (the loop of the code never ends on a cycle).
RECURSIVE Follow(_, _, _)
Follow(track_id, mm, n) ==
    IF track_id \notin DOMAIN mm THEN Some(track_id)
    ELSE IF n = 0 THEN None
    ELSE Follow(mm[track_id], mm, n - 1)

_get_master_id(track_id, mm) == Follow(track_id, mm, Cardinality(DOMAIN mm))

\* variant: the chain is followed from the slave instead of the master
MergeEntry_FromSlave(master_id, slave_id, mm) ==
    [key |-> slave_id, final_master |-> _get_master_id(slave_id, mm)]

\* variant: an entry the slave already has is kept
MergeEntry_KeepFirst(master_id, slave_id, mm) ==
    [key |-> slave_id,
     final_master |-> IF slave_id \in DOMAIN mm THEN Some(mm[slave_id])
                      ELSE _get_master_id(master_id, mm)]

\* id_stitcher.py:157-160: the entry written for a pair that should merge
MergeEntry(master_id, slave_id, mm) ==
    [key |-> slave_id, final_master |-> _get_master_id(master_id, mm)]

\* variant: the map is used as it is, chains not followed
ExpandedMap_Direct(mm) == Some(mm)

\* The expanded map of _apply_id_mapping (id_stitcher.py:181-183); None when
\* a lookup does not end
ExpandedMap(mm) ==
    IF \E old_id \in DOMAIN mm : _get_master_id(old_id, mm) = None
    THEN None
    ELSE Some([old_id \in DOMAIN mm |-> _get_master_id(old_id, mm)[1]])

\* variant: the new ID is read with a default of 0 instead of under the guard
Remapped_DefaultZero(track, expanded_map) ==
    [track EXCEPT !.track_id = IF track.track_id \in DOMAIN expanded_map
                               THEN expanded_map[track.track_id] ELSE 0,
                  !.stitched = Some(track.track_id \in DOMAIN expanded_map)]

\* The track dict after the loop body of _apply_id_mapping has written to it
Remapped(track, expanded_map) ==
    IF track.track_id \in DOMAIN expanded_map
    THEN [track EXCEPT !.track_id = expanded_map[track.track_id],
                       !.stitched = Some(TRUE)]
    ELSE [track EXCEPT !.stitched = Some(FALSE)]

\* The heap after _apply_id_mapping: every dict reachable from results is
\* written in place (id_stitcher.py:189-199)
ApplyToHeap(hp, results, expanded_map) ==
    LET refs == { Records(results)[i][2] : i \in 1..Len(Records(results)) }
    IN  [r \in 1..Len(hp) |-> IF r \in refs THEN Remapped(hp[r], expanded_map)
                              ELSE hp[r]]

\* The list _apply_id_mapping returns: new frame dicts, 'tracks' a new list of
\* the same track dicts (id_stitcher.py:199-204)
StitchedList(results) ==
    [k \in 1..Len(results) |-> [frame |-> results[k].frame,
                                tracks |-> results[k].tracks]]

count_unique_ids(results, hp) ==
    Cardinality({ hp[Records(results)[i][2]].track_id : i \in 1..Len(Records(results)) })

\* get_statistics for a non-zero original count; reduction_percentage is the
\* fraction <<numerator, denominator>>
get_statistics(original_results, stitched, hp) ==
    LET original_count == count_unique_ids(original_results, hp)
        stitched_count == count_unique_ids(stitched, hp)
    IN  [original_unique_ids |-> original_count,
         stitched_unique_ids |-> stitched_count,
         ids_merged |-> original_count - stitched_count,
         reduction_percentage |-> <<(original_count - stitched_count) * 100,
                                    original_count>>]

-----------------------------------------------------------------------------
(* process_sequence up to the statistics (run.py:92-113) *)

CounterIdle ==
    /\ line_start = <<0, 0>>
    /\ line_end = <<0, 0>>
    /\ min_frames_between = 0
    /\ history_length = 0
    /\ track_history = EmptyDict
    /\ last_crossing_frame = EmptyDict
    /\ count_in = 0
    /\ count_out = 0
    /\ events = <<>>
    /\ frame_events = <<>>
    /\ summary = None
    /\ last_frame = 0
    /\ steps = <<>>

\* The tracker is about to run, or has produced the two-track sequence
InitStitch ==
    /\ pc = "tracking"
    /\ \E input \in {<<>>, ScenarioR} :
          /\ heap = Flatten(input)
          /\ tracking_results = RefFrames(input, 0)
    /\ R0 = <<>>
    /\ track_segments = EmptyDict
    /\ merge_map = EmptyDict
    /\ loop_i = 0
    /\ loop_j = 0
    /\ stitched_results = None
    /\ stitching_stats = None
    /\ last_pair = None
    /\ merge_log = <<>>
    /\ CounterIdle

LastFrameNum == IF tracking_results = <<>> THEN 0
                ELSE tracking_results[Len(tracking_results)].frame

\* One iteration of the loop of track_sequence (tracker_botsort.py:52-94)
TrackFrame ==
    /\ pc = "tracking"
    /\ \E f \in FrameNums : \E tracks \in SeqsOfSizes(StitchTracks, FrameSizes) :
          /\ f > LastFrameNum
          /\ Len(heap) + Len(tracks) <= MaxTracks
          /\ heap' = heap \o tracks
          /\ tracking_results' =
                tracking_results \o RefFrames(<<[frame |-> f, tracks |-> tracks]>>, Len(heap))
    /\ UNCHANGED <<pc, R0, track_segments, merge_map, loop_i, loop_j,
                   stitched_results, stitching_stats, last_pair, merge_log>>
    /\ UNCHANGED counter_vars

track_ids == SortedIds(DOMAIN track_segments)

\* stitch_tracks is called: _build_track_segments, and entry into the loops of
\* _find_merge_candidates (id_stitcher.py:45, 105-111)
BuildSegments ==
    /\ pc = "tracking"
    /\ R0' = Content(tracking_results, heap)
    /\ track_segments' = _build_track_segments(tracking_results, heap)
    /\ merge_map' = EmptyDict
    /\ merge_log' = <<>>
    /\ IF Cardinality(DOMAIN track_segments') >= 2
       THEN pc' = "merge" /\ loop_i' = 1 /\ loop_j' = 2
       ELSE pc' = "apply" /\ UNCHANGED <<loop_i, loop_j>>
    /\ UNCHANGED <<heap, tracking_results, stitched_results, stitching_stats, last_pair>>
    /\ UNCHANGED counter_vars

\* The loop indices after the pair (i, j) of n sorted IDs
Advance(n) ==
    IF loop_j < n THEN pc' = "merge" /\ loop_i' = loop_i /\ loop_j' = loop_j + 1
    ELSE IF loop_i + 2 <= n
         THEN pc' = "merge" /\ loop_i' = loop_i + 1 /\ loop_j' = loop_i + 2
         ELSE pc' = "apply" /\ UNCHANGED <<loop_i, loop_j>>

\* One iteration of the inner loop of _find_merge_candidates
MergeStep ==
    /\ pc = "merge"
    /\ LET a == track_ids[loop_i]
           b == track_ids[loop_j]
           e == EvalPair(track_segments, a, b)
           entry == MergeEntry(e.master_id, e.slave_id, merge_map)
       IN  /\ last_pair' = Some(PairFacts(track_segments, a, b, merge_map))
           /\ IF e.raised
              THEN /\ pc' = "raised:_find_merge_candidates"
                   /\ UNCHANGED <<merge_map, merge_log, loop_i, loop_j>>
              ELSE IF ~e.should_merge
              THEN /\ UNCHANGED <<merge_map, merge_log>>
                   /\ Advance(Len(track_ids))
              ELSE IF entry.final_master = None
              THEN /\ pc' = "hang:_get_master_id"
                   /\ UNCHANGED <<merge_map, merge_log, loop_i, loop_j>>
              ELSE /\ merge_map' = DictSet(merge_map, entry.key, entry.final_master[1])
                   /\ merge_log' = Append(merge_log,
                          [a |-> a, b |-> b,
                           master_id |-> e.master_id, slave_id |-> e.slave_id,
                           final_master |-> entry.final_master[1]])
                   /\ Advance(Len(track_ids))
    /\ UNCHANGED <<heap, tracking_results, R0, track_segments,
                   stitched_results, stitching_stats>>
    /\ UNCHANGED counter_vars

\* _apply_id_mapping and the return of stitch_tracks (id_stitcher.py:51-55)
ApplyIdMapping ==
    /\ pc = "apply"
    /\ LET em == ExpandedMap(merge_map)
       IN  IF em = None
           THEN /\ pc' = "hang:_get_master_id"
                /\ UNCHANGED <<heap, stitched_results>>
           ELSE /\ heap' = ApplyToHeap(heap, tracking_results, em[1])
                /\ stitched_results' = Some(StitchedList(tracking_results))
                /\ pc' = "stats"
    /\ UNCHANGED <<tracking_results, R0, track_segments, merge_map, loop_i, loop_j,
                   stitching_stats, last_pair, merge_log>>
    /\ UNCHANGED counter_vars

\* stitcher.get_statistics(tracking_results, tracking_results_stitched)
\* (run.py:113); the division by original_count raises when it is 0
GetStatistics ==
    /\ pc = "stats"
    /\ IF count_unique_ids(tracking_results, heap) = 0
       THEN /\ pc' = "raised:get_statistics"
            /\ UNCHANGED stitching_stats
       ELSE /\ stitching_stats' =
                  Some(get_statistics(tracking_results, stitched_results[1], heap))
            /\ pc' = "done"
    /\ UNCHANGED <<heap, tracking_results, R0, track_segments, merge_map,
                   loop_i, loop_j, stitched_results, last_pair, merge_log>>
    /\ UNCHANGED counter_vars

NextStitch == TrackFrame \/ BuildSegments \/ MergeStep \/ ApplyIdMapping \/ GetStatistics

SpecStitch == InitStitch /\ [][NextStitch]_vars

-----------------------------------------------------------------------------
(* stitch_tracks called on a stored list of frame dicts                    *)
(* (stitch_tracks(tracking_results: List[Dict]), id_stitcher.py:32-55),    *)
(* then get_statistics.  The list need not come from one tracker run: its  *)
(* frame dicts may be in any order.                                        *)

\* Frame numbers with gaps of 1, 14, 30, 31, 44 and 45 frames
PairFrameNums == {1, 15, 45, 46}

\* The boxes of Boxes, and: area 1000 centred (100,100), half the area of the
\* first; area 1900 centred (249,100), at distance 149 from the first.
PairBoxes == Boxes \cup { <<90, 75, 110, 125>>, <<230, 75, 268, 125>> }

PairTracks == { TrackDict(t, b) : t \in StitchIds, b \in PairBoxes }

Ascending(fs) == \A k \in 1..(Len(fs) - 1) : fs[k] < fs[k + 1]

Distinct(fs) == \A k, l \in 1..Len(fs) : k # l => fs[k] # fs[l]

\* One track per frame dict
SingleTrackFrames(fs, ts) == [k \in 1..Len(fs) |-> [frame |-> fs[k], tracks |-> <<ts[k]>>]]

\* Two or three frames in ascending order with one track each, or one frame
\* with two tracks, over PairBoxes; one to three frames in any order with one
\* track each, over Boxes.
OfflineInputs ==
    { SingleTrackFrames(fs, ts) :
        <<fs, ts>> \in { p \in SeqsOfSizes(PairFrameNums, {2, 3}) \X SeqsOfSizes(PairTracks, {2, 3}) :
                            Len(p[1]) = Len(p[2]) /\ Ascending(p[1]) } }
    \cup
    { << [frame |-> f, tracks |-> ts] >> : f \in PairFrameNums, ts \in [1..2 -> PairTracks] }
    \cup
    { SingleTrackFrames(fs, ts) :
        <<fs, ts>> \in { p \in SeqsOfSizes(FrameNums, {1, 2, 3}) \X SeqsOfSizes(StitchTracks, {1, 2, 3}) :
                            Len(p[1]) = Len(p[2]) /\ Distinct(p[1]) } }

InitOffline ==
    /\ pc = "tracking"
    /\ \E input \in OfflineInputs :
          /\ heap = Flatten(input)
          /\ tracking_results = RefFrames(input, 0)
    /\ R0 = <<>>
    /\ track_segments = EmptyDict
    /\ merge_map = EmptyDict
    /\ loop_i = 0
    /\ loop_j = 0
    /\ stitched_results = None
    /\ stitching_stats = None
    /\ last_pair = None
    /\ merge_log = <<>>
    /\ CounterIdle

NextOffline == BuildSegments \/ MergeStep \/ ApplyIdMapping \/ GetStatistics

SpecOffline == InitOffline /\ [][NextOffline]_vars

-----------------------------------------------------------------------------
(* Geometry used to state the claims *)

\* Sign of the orientation of (A, B, C): the cross product of section 4.1
Orient(A, B, C) ==
    LET d == (C[2] - A[2]) * (B[1] - A[1]) - (B[2] - A[2]) * (C[1] - A[1])
    IN  IF d > 0 THEN 1 ELSE IF d < 0 THEN -1 ELSE 0

\* Segment p1-p2 properly crosses segment p3-p4: the ends of each lie strictly
\* on opposite sides of the other
ProperlyCrosses(p1, p2, p3, p4) ==
    /\ Orient(p1, p3, p4) * Orient(p2, p3, p4) = -1
    /\ Orient(p1, p2, p3) * Orient(p1, p2, p4) = -1

CrossesLine(s) ==
    /\ s.prev # None
    /\ ProperlyCrosses(s.prev[1], s.center, line_start, line_end)

\* line x movement, as in section 4.1
CrossProduct(pos1, pos2) ==
    (line_end[1] - line_start[1]) * (pos2[2] - pos1[2])
        - (line_end[2] - line_start[2]) * (pos2[1] - pos1[1])

StepSet == { steps[i] : i \in 1..Len(steps) }

\* The record's ID had an event in the log, k frames before this frame
FramesSinceEvent(s) == last_frame - s.last_ev[1]

EmitsOne(s) ==
    /\ Len(s.new_events) = 1
    /\ s.new_events[1].frame = last_frame
    /\ s.new_events[1].track_id = s.track_id

-----------------------------------------------------------------------------
(* Claims on the counter, under SpecCounter *)

\* C1: debounce.  A record of an ID whose latest event is k frames old and
\* whose step from the previous position crosses the line emits no event when
\* k < min_frames_between_crossings and one event when k >= it; so two events
\* of one ID in the log are at least min_frames_between_crossings apart.
C1_Debounce ==
    /\ \A s \in StepSet :
          (s.last_ev # None /\ CrossesLine(s)) =>
             IF FramesSinceEvent(s) < min_frames_between
             THEN s.new_events = <<>>
             ELSE EmitsOne(s)
    /\ \A i, j \in 1..Len(events) :
          (i < j /\ events[i].track_id = events[j].track_id) =>
             events[j].frame - events[i].frame >= min_frames_between

\* one call in which a crossing k >= threshold frames after an event is
\* counted and a further crossing of the same ID, 0 frames later, is not
C1_Witness ==
    \E s1, s2 \in StepSet :
       /\ s1.track_id = s2.track_id
       /\ s1.last_ev # None /\ CrossesLine(s1)
       /\ FramesSinceEvent(s1) >= min_frames_between /\ EmitsOne(s1)
       /\ s2.last_ev # None /\ CrossesLine(s2)
       /\ FramesSinceEvent(s2) < min_frames_between /\ s2.new_events = <<>>

\* C3: no false crossing.  A record whose ID has no previous position, or
\* whose step from the previous position does not cross the line, emits no
\* event and leaves both counters unchanged.
C3_NoFalseCrossing ==
    \A s \in StepSet :
       ~CrossesLine(s) =>
          /\ s.new_events = <<>>
          /\ s.d_in = 0
          /\ s.d_out = 0

\* C4: one event per counted crossing.  A record of an ID with an earlier
\* observation, not cooling down, whose step properly crosses the line emits
\* exactly one event with this frame and ID, adds 1 to the counter of the
\* event's direction and to no other, and starts the ID's cooldown at this
\* frame.  With line (0,0)-(0,100), threshold 30 and one track seen at (-10,50)
\* in frame 1 and (10,50) in frame 2, the log holds one event, of frame 2, and
\* total_crossings is 1.
C4_OneEventPerCrossing ==
    /\ \A s \in StepSet :
          ( /\ CrossesLine(s)
            /\ (s.last_ev = None \/ FramesSinceEvent(s) >= min_frames_between) )
          => /\ EmitsOne(s)
             /\ \/ s.new_events[1].direction = "IN" /\ s.d_in = 1 /\ s.d_out = 0
                \/ s.new_events[1].direction = "OUT" /\ s.d_in = 0 /\ s.d_out = 1
             /\ s.lcf = Some(last_frame)
    /\ \A t \in CounterIds :
          ( /\ line_start = <<0, 0>> /\ line_end = <<0, 100>>
            /\ min_frames_between = 30
            /\ DOMAIN track_history = {t}
            /\ track_history[t] = << <<1, <<-10, 50>>>>, <<2, <<10, 50>>>> >> )
          => /\ Len(events) = 1
             /\ events[1].frame = 2
             /\ events[1].track_id = t
             /\ get_summary.total_crossings = 1

C4_Witness ==
    /\ line_end = <<0, 100>>
    /\ min_frames_between = 30
    /\ DOMAIN track_history = {1}
    /\ track_history[1] = << <<1, <<-10, 50>>>>, <<2, <<10, 50>>>> >>
    /\ Len(events) = 1
    /\ summary # None /\ summary[1].total_crossings = 1

\* C5: the direction of every emitted event is IN when the cross product of
\* the line vector and the movement from the previous to the current position
\* is positive, and OUT when it is zero or negative.
C5_DirectionBySign ==
    \A s \in StepSet :
       \A k \in 1..Len(s.new_events) :
          /\ s.prev # None
          /\ s.new_events[k].direction =
                (IF CrossProduct(s.prev[1], s.center) > 0 THEN "IN" ELSE "OUT")

\* an IN event and an OUT event emitted by one call
C5_Witness ==
    \E s1, s2 \in StepSet :
       /\ Len(s1.new_events) = 1 /\ s1.new_events[1].direction = "IN"
       /\ CrossProduct(s1.prev[1], s1.center) > 0
       /\ Len(s2.new_events) = 1 /\ s2.new_events[1].direction = "OUT"
       /\ CrossProduct(s2.prev[1], s2.center) < 0

\* The step of the concrete case: line (0,0)-(0,10), a track seen at (-1,5)
\* and then at (1,5), and an event emitted for it
IsLeftToRightCase(s) ==
    /\ line_start = <<0, 0>> /\ line_end = <<0, 10>>
    /\ s.prev = Some(<<-1, 5>>) /\ s.center = <<1, 5>>
    /\ Len(s.new_events) = 1

CountDir(evs, n, d) == Cardinality({ i \in 1..n : evs[i].direction = d })

\* The summary v agrees with the event log
SummaryOfLog(v) ==
    /\ v.total_in = CountDir(events, Len(events), "IN")
    /\ v.total_out = CountDir(events, Len(events), "OUT")
    /\ v.net = v.total_in - v.total_out
    /\ v.total_crossings = Len(events)
    /\ v.total_crossings = v.total_in + v.total_out
    /\ v.unique_tracks = Cardinality({ events[i].track_id : i \in 1..Len(events) })

\* C7: after any sequence of process_frame calls get_summary returns the
\* numbers of IN and OUT events of the log, their difference, the length of
\* the log and the number of distinct IDs in it; every event carries the
\* numbers of IN and OUT events up to and including itself; and a call of
\* get_summary changes no field of the detector.
C7_SummaryConsistent ==
    /\ [](/\ SummaryOfLog(get_summary)
          /\ summary # None => SummaryOfLog(summary[1])
          /\ \A i \in 1..Len(events) :
                /\ events[i].count_in = CountDir(events, i, "IN")
                /\ events[i].count_out = CountDir(events, i, "OUT"))
    /\ [][(summary = None /\ summary' # None) => UNCHANGED detector_state]_vars

\* a summary returned for a log with an IN and an OUT event of two IDs
C7_Witness ==
    /\ summary # None
    /\ summary[1].total_in >= 1
    /\ summary[1].total_out >= 1
    /\ summary[1].unique_tracks = 2

-----------------------------------------------------------------------------
(* Claims on the stitcher, under SpecStitch *)

IdsIn(content) ==
    { Flatten(content)[i].track_id : i \in 1..Len(Flatten(content)) }

\* C2 as stated: for the two-track sequence (ID 1 in frames 1-10 ending at
\* (100,100) with area 2000, ID 2 in frames 15-30 starting at (110,105) with
\* area 1900) stitch_tracks maps ID 2 to ID 1 and get_statistics called with
\* the sequence and the result reports 2 original IDs, 1 stitched ID and 1
\* merged ID.
C2_ScenarioStatistics ==
    (R0 = ScenarioR /\ pc = "done") =>
       /\ DOMAIN merge_map = {2}
       /\ merge_map[2] = 1
       /\ stitching_stats[1].original_unique_ids = 2
       /\ stitching_stats[1].stitched_unique_ids = 1
       /\ stitching_stats[1].ids_merged = 1

\* C8: stitching never increases the number of identities.  The statistics
\* report stitched_unique_ids <= original_unique_ids and ids_merged >= 0, and
\* every ID of the stitched sequence is an ID of the sequence passed in.
C8_NeverMoreIds ==
    /\ stitched_results # None =>
          IdsIn(Content(stitched_results[1], heap)) \subseteq IdsIn(R0)
    /\ stitching_stats # None =>
          /\ stitching_stats[1].stitched_unique_ids <= stitching_stats[1].original_unique_ids
          /\ stitching_stats[1].ids_merged >= 0

\* statistics computed for a sequence in which an ID was merged into another
C8_Witness ==
    /\ stitching_stats # None
    /\ DOMAIN merge_map # {}
    /\ Cardinality(IdsIn(Content(stitched_results[1], heap))) < Cardinality(IdsIn(R0))

\* The ID reached from id by k lookups in the mapping, None once outside it
RECURSIVE Lookups(_, _)
Lookups(id, k) ==
    IF k = 0 THEN Some(id)
    ELSE IF id \notin DOMAIN merge_map THEN None
    ELSE Lookups(merge_map[id], k - 1)

\* C9: the merge map is well formed at every point of _find_merge_candidates
\* and after it.  No ID maps to itself, no ID is reached from itself by
\* following the map, so _get_master_id ends for every ID, on an ID that is
\* not a key, and resolving that ID again yields it again.
C9_MergeMapWellFormed ==
    /\ \A id \in DOMAIN merge_map : merge_map[id] # id
    /\ \A id \in DOMAIN merge_map :
          \A k \in 1..Cardinality(DOMAIN merge_map) : Lookups(id, k) # Some(id)
    /\ \A id \in StitchIds :
          LET r == _get_master_id(id, merge_map)
          IN  /\ r # None
              /\ r[1] \notin DOMAIN merge_map
              /\ _get_master_id(r[1], merge_map) = r
    /\ pc # "hang:_get_master_id"

\* a map with a chain of two entries, slave -> master -> master's master
C9_Witness ==
    \E id \in DOMAIN merge_map :
       /\ merge_map[id] \in DOMAIN merge_map
       /\ _get_master_id(id, merge_map) = Some(merge_map[merge_map[id]])

\* C10 as stated: an iteration on a pair that passes the frame-gap test and
\* compares a bounding box of area 0 raises no error, adds no entry to the map
\* and goes on with the remaining pairs.
C10_ZeroAreaRejected ==
    ( /\ last_pair # None
      /\ last_pair[1].gap_ok
      /\ (last_pair[1].area_earlier = 0 \/ last_pair[1].area_later = 0) )
    => /\ pc # "raised:_find_merge_candidates"
       /\ merge_map = last_pair[1].map_before
       /\ pc \in {"merge", "apply", "stats", "done"}

-----------------------------------------------------------------------------
(* Empty input *)

\* C11 as stated: for a sequence with no tracks at all (no frames, or frames
\* whose track lists are all empty) stitch_tracks builds an empty mapping and
\* returns the sequence unchanged, get_statistics returns zeros for every
\* count without raising, and a counter that has processed no record returns
\* a summary of zeros.
C11_EmptyInput ==
    /\ (pc \notin {"idle", "tracking"} /\ IdsIn(R0) = {}) =>
          /\ merge_map = EmptyDict
          /\ stitched_results # None => Content(stitched_results[1], heap) = R0
          /\ pc # "raised:get_statistics"
          /\ pc = "done" =>
                /\ stitching_stats # None
                /\ stitching_stats[1].original_unique_ids = 0
                /\ stitching_stats[1].stitched_unique_ids = 0
                /\ stitching_stats[1].ids_merged = 0
                /\ stitching_stats[1].reduction_percentage[1] = 0
    /\ DOMAIN track_history = {} =>
          get_summary = [total_in |-> 0, total_out |-> 0, net |-> 0,
                         total_crossings |-> 0, unique_tracks |-> 0]

-----------------------------------------------------------------------------
(* The merge decision *)

\* The merge rule for E as the earlier and L as the later track: E ends
\* before L starts, by at most max_frame_gap frames; E's end position is
\* nearer than position_threshold to L's start position; the smaller of the
\* areas of E's end box and L's start box, over the larger, exceeds
\* size_similarity_threshold (a ratio with a zero divisor exceeds nothing).
Qualifies(E, L) ==
    LET e == track_segments[E]
        l == track_segments[L]
        dx == e.end_position[1] - l.start_position[1]
        dy == e.end_position[2] - l.start_position[2]
        area_e == (e.end_bbox[3] - e.end_bbox[1]) * (e.end_bbox[4] - e.end_bbox[2])
        area_l == (l.start_bbox[3] - l.start_bbox[1]) * (l.start_bbox[4] - l.start_bbox[2])
        small == IF area_e < area_l THEN area_e ELSE area_l
        large == IF area_e < area_l THEN area_l ELSE area_e
    IN  /\ e.end_frame < l.start_frame
        /\ l.start_frame - e.end_frame <= MaxFrameGap
        /\ dx * dx + dy * dy < PositionThreshold * PositionThreshold
        /\ large > 0
        /\ small * SizeSimilarityDen > SizeSimilarityNum * large

\* The assignments made for the pair of IDs {A, B}
EdgesOf(A, B) ==
    { k \in 1..Len(merge_log) : {merge_log[k].a, merge_log[k].b} = {A, B} }

\* C12: for every pair of distinct track IDs, _find_merge_candidates records
\* an edge for the pair exactly when one of the two (E) ends before the other
\* (L) starts, by at most max_frame_gap frames, with E's end position nearer
\* than position_threshold to L's start position and an area ratio above
\* size_similarity_threshold; the edge has L as the slave and E as the master.
\* Every edge recorded is for such a pair, the iteration just made recorded
\* one exactly when its pair is such a pair, and once the loops are over
\* every such pair has its edge.  Pairs that overlap or touch in time, or
\* fail one of the tests, get none.
C12_MergeRule ==
    /\ \A k \in 1..Len(merge_log) :
          /\ Qualifies(merge_log[k].master_id, merge_log[k].slave_id)
          /\ {merge_log[k].master_id, merge_log[k].slave_id}
                = {merge_log[k].a, merge_log[k].b}
          /\ merge_log[k].slave_id \in DOMAIN merge_map
    /\ last_pair # None =>
          LET A == last_pair[1].a
              B == last_pair[1].b
          IN  (EdgesOf(A, B) # {}) <=> (Qualifies(A, B) \/ Qualifies(B, A))
    /\ pc \in {"apply", "stats", "done"} =>
          \A A, B \in DOMAIN track_segments :
             (A # B /\ Qualifies(A, B)) =>
                \E k \in EdgesOf(A, B) :
                   merge_log[k].master_id = A /\ merge_log[k].slave_id = B

\* the loops are over with an edge recorded, and with no edge for a pair that
\* passes every test but has an area ratio equal to the threshold
C12_Witness ==
    /\ pc \in {"apply", "stats", "done"}
    /\ merge_log # <<>>
    /\ \E A, B \in DOMAIN track_segments :
          LET e == track_segments[A]
              l == track_segments[B]
          IN  /\ e.end_frame < l.start_frame
              /\ l.start_frame - e.end_frame <= MaxFrameGap
              /\ DistBelowThreshold(e.end_position, l.start_position)
              /\ _get_bbox_size(e.end_bbox) * SizeSimilarityDen
                    = SizeSimilarityNum * _get_bbox_size(l.start_bbox)
              /\ _get_bbox_size(l.start_bbox) > 0
              /\ EdgesOf(A, B) = {}

-----------------------------------------------------------------------------
(* Shape of the merge map *)

\* C13 as stated: after every insertion made by _find_merge_candidates, and
\* in the mapping it returns, no value of merge_map is itself a key of
\* merge_map.
C13_DepthOne ==
    \A id \in DOMAIN merge_map : merge_map[id] \notin DOMAIN merge_map

\* The assignments made with L as the slave, by position in the log
WritesTo(L) == { k \in 1..Len(merge_log) : merge_log[k].slave_id = L }

First(S) == CHOOSE k \in S : \A l \in S : k <= l
Last(S) == CHOOSE k \in S : \A l \in S : k >= l

\* The ID on which the chain from id ends in the mapping mm
RECURSIVE TerminalIn(_, _)
TerminalIn(mm, id) == IF id \in DOMAIN mm THEN TerminalIn(mm, mm[id]) ELSE id

-----------------------------------------------------------------------------
(* Degenerate positions of a step against the counting line *)

\* One of the four orientations of _segments_intersect(p1, p2, p3, p4) is zero
Degenerate(p1, p2, p3, p4) ==
    \/ Orient(p1, p3, p4) = 0
    \/ Orient(p2, p3, p4) = 0
    \/ Orient(p1, p2, p3) = 0
    \/ Orient(p1, p2, p4) = 0

\* C15 as stated: whenever one of the four orientation cross products of
\* _segments_intersect is exactly zero the function returns false; a step of a
\* track that runs along the counting line, or starts or ends exactly on it,
\* produces no event.
C15_DegenerateIsNoCrossing ==
    \A s \in StepSet :
       (s.prev # None /\ Degenerate(s.prev[1], s.center, line_start, line_end)) =>
          /\ ~_segments_intersect(s.prev[1], s.center, line_start, line_end)
          /\ s.new_events = <<>>

-----------------------------------------------------------------------------
(* The sequence returned by stitch_tracks *)

\* C16: in the sequence returned by stitch_tracks every track record has the
\* track_id on which the chain from its original track_id ends in the merge
\* map, which is not a key of the map; its stitched flag is true exactly when
\* its original track_id was a key; the frames, their numbers, the number and
\* order of the records of each frame, and every record's bbox, center and
\* confidence are those of the input.
C16_RemappedRecords ==
    stitched_results # None =>
       LET out == Content(stitched_results[1], heap)
       IN  /\ Len(out) = Len(R0)
           /\ \A k \in 1..Len(R0) :
                 /\ out[k].frame = R0[k].frame
                 /\ Len(out[k].tracks) = Len(R0[k].tracks)
                 /\ \A i \in 1..Len(R0[k].tracks) :
                       LET old == R0[k].tracks[i]
                           new == out[k].tracks[i]
                       IN  /\ new.track_id = TerminalIn(merge_map, old.track_id)
                           /\ new.track_id \notin DOMAIN merge_map
                           /\ new.stitched = Some(old.track_id \in DOMAIN merge_map)
                           /\ new.bbox = old.bbox
                           /\ new.center = old.center
                           /\ new.confidence = old.confidence

\* a returned sequence with a record whose original ID was mapped to an ID
\* that is itself mapped, and a record whose ID was not mapped
C16_Witness ==
    /\ stitched_results # None
    /\ \E k \in 1..Len(R0) : \E i \in 1..Len(R0[k].tracks) :
          /\ R0[k].tracks[i].track_id \in DOMAIN merge_map
          /\ merge_map[R0[k].tracks[i].track_id] \in DOMAIN merge_map
          /\ heap[stitched_results[1][k].tracks[i]].stitched = Some(TRUE)
    /\ \E k \in 1..Len(R0) : \E i \in 1..Len(R0[k].tracks) :
          /\ R0[k].tracks[i].track_id \notin DOMAIN merge_map
          /\ heap[stitched_results[1][k].tracks[i]].stitched = Some(FALSE)

-----------------------------------------------------------------------------
(* Track segments *)

\* The observations of an ID in the input: frame number, center and bbox of
\* each of its records
Observations(id) ==
    { [frame |-> R0[k].frame, center |-> R0[k].tracks[i].center,
       bbox |-> R0[k].tracks[i].bbox] :
         <<k, i>> \in { p \in UNION { {l} \X DOMAIN R0[l].tracks : l \in 1..Len(R0) } :
                           R0[p[1]].tracks[p[2]].track_id = id } }

\* C17: for an input with frame numbers >= 1 whose frame dicts come in any
\* order, _build_track_segments makes exactly one segment per distinct
\* track_id; its start_frame is the least and its end_frame the greatest frame
\* number in which the ID was observed, so start_frame <= end_frame, with
\* equality when the ID is seen in one frame only; start_position and
\* start_bbox are the center and bbox of a record of the ID observed at
\* start_frame, end_position and end_bbox those of one observed at end_frame.
C17_SegmentsFromObservations ==
    pc # "tracking" =>
       /\ DOMAIN track_segments = IdsIn(R0)
       /\ \A id \in DOMAIN track_segments :
             LET seg == track_segments[id]
                 obs == Observations(id)
             IN  /\ \E o \in obs : o.frame = seg.start_frame
                 /\ \A o \in obs : seg.start_frame <= o.frame /\ o.frame <= seg.end_frame
                 /\ \E o \in obs : o.frame = seg.end_frame
                 /\ seg.start_frame <= seg.end_frame
                 /\ Cardinality({ o.frame : o \in obs }) = 1 => seg.start_frame = seg.end_frame
                 /\ \E o \in obs : /\ o.frame = seg.start_frame
                                   /\ o.center = seg.start_position
                                   /\ o.bbox = seg.start_bbox
                 /\ \E o \in obs : /\ o.frame = seg.end_frame
                                   /\ o.center = seg.end_position
                                   /\ o.bbox = seg.end_bbox

\* segments built from frame dicts that are not in ascending order: an ID seen
\* in two frames with different boxes, the later frame first, and an ID seen
\* in one frame
C17_Witness ==
    /\ pc # "tracking"
    /\ \E k \in 1..(Len(R0) - 1) : R0[k].frame > R0[k + 1].frame
    /\ \E id \in DOMAIN track_segments :
          /\ track_segments[id].start_frame < track_segments[id].end_frame
          /\ track_segments[id].start_bbox # track_segments[id].end_bbox
          /\ \E k, l \in 1..Len(R0) :
                /\ k < l
                /\ R0[k].frame = track_segments[id].end_frame
                /\ R0[l].frame = track_segments[id].start_frame
    /\ \E id \in DOMAIN track_segments :
          track_segments[id].start_frame = track_segments[id].end_frame

-----------------------------------------------------------------------------
(* Track history *)

\* The last n entries of a sequence
LastN(q, n) == IF Len(q) > n THEN SubSeq(q, Len(q) - n + 1, Len(q)) ELSE q

\* The entries (frame, center) of the first k records of a call's log that
\* belong to the ID t, in the order of the records
RECURSIVE ObservedIn(_, _, _, _)
ObservedIn(log, k, frame_num, t) ==
    IF k = 0 THEN <<>>
    ELSE IF log[k].track_id = t
         THEN Append(ObservedIn(log, k - 1, frame_num, t), <<frame_num, log[k].center>>)
         ELSE ObservedIn(log, k - 1, frame_num, t)

\* C18: after any sequence of process_frame calls the history of each track
\* ID holds at most position_history_length entries, the most recent
\* observations of the ID in arrival order: every call appends one entry per
\* track record it is given, cooling-down records included, the oldest
\* entries leaving first; and the point a record's crossing test starts from
\* is the entry just before the appended one, the last earlier observation of
\* the ID.
C18_TrackHistory ==
    /\ [] ( /\ \A t \in DOMAIN track_history :
                  /\ Len(track_history[t]) >= 1
                  /\ Len(track_history[t]) <= history_length
            /\ \A s \in StepSet :
                  /\ s.track_id \in DOMAIN track_history
                  /\ s.test_start = s.prev )
    /\ [][ last_frame' # last_frame =>
             /\ DOMAIN track_history' =
                   DOMAIN track_history \cup { steps'[i].track_id : i \in 1..Len(steps') }
             /\ \A t \in DOMAIN track_history' :
                   track_history'[t] =
                      LastN((IF t \in DOMAIN track_history THEN track_history[t] ELSE <<>>)
                               \o ObservedIn(steps', Len(steps'), last_frame', t),
                            history_length') ]_vars

\* with a history of two entries and a cooldown of two frames: an ID that had
\* a crossing in frame 1 has been given two records in frame 2, both cooling
\* down, and its history holds those two, the entries of frame 1 gone
C18_Witness ==
    /\ history_length = 2
    /\ min_frames_between = 2
    /\ last_frame = 2
    /\ \E t \in DOMAIN track_history :
          /\ t \in DOMAIN last_crossing_frame
          /\ last_crossing_frame[t] = 1
          /\ Len(track_history[t]) = 2
          /\ track_history[t][1][1] = 2
          /\ track_history[t][2][1] = 2
          /\ track_history[t][1][2] # track_history[t][2][2]

-----------------------------------------------------------------------------
(* Identities within a frame, and the order in time of masters and slaves *)

\* No two track records of the frame have the same track_id
UniqueIds(tracks) ==
    \A i, j \in 1..Len(tracks) : i # j => tracks[i].track_id # tracks[j].track_id

\* C19 as stated: if no frame of the input holds two track records with the
\* same track_id, no frame of the sequence returned by stitch_tracks does: two
\* IDs observed in the same frame are never given the same master.
C19_FrameIdsStayUnique ==
    (stitched_results # None /\ \A k \in 1..Len(R0) : UniqueIds(R0[k].tracks)) =>
       \A k \in 1..Len(R0) :
          UniqueIds(Content(stitched_results[1], heap)[k].tracks)

\* C20: masters precede their slaves in time.  For every entry slave ->
\* master of the merge map, at every point of _find_merge_candidates and
\* after it, the master's segment ends before the slave's segment starts, and
\* so does the segment of the ID on which the chain from the slave ends: no ID
\* is mapped to a track that starts after it or overlaps it in time.
C20_MastersPrecedeSlaves ==
    \A slave \in DOMAIN merge_map :
       /\ slave \in DOMAIN track_segments
       /\ merge_map[slave] \in DOMAIN track_segments
       /\ track_segments[merge_map[slave]].end_frame < track_segments[slave].start_frame
       /\ TerminalIn(merge_map, slave) \in DOMAIN track_segments
       /\ track_segments[TerminalIn(merge_map, slave)].end_frame
             < track_segments[slave].start_frame

\* a slave whose master is itself a slave: the chain ends on a third track,
\* which ends before the master starts
C20_Witness ==
    \E slave \in DOMAIN merge_map :
       /\ merge_map[slave] \in DOMAIN merge_map
       /\ TerminalIn(merge_map, slave) # merge_map[slave]
       /\ track_segments[TerminalIn(merge_map, slave)].end_frame
             < track_segments[merge_map[slave]].start_frame
       /\ track_segments[merge_map[slave]].end_frame < track_segments[slave].start_frame

=============================================================================
